---- MODULE Spec2Model ----
(***************************************************************************)
(* The ThinkGear packet framer (parse_packet / update_plot) and payload    *)
(* decoder (parse_payload) of main.py, band_sep.py and stress.py.          *)
(*                                                                         *)
(* The three scripts share the framer line for line; they differ in the    *)
(* codes parse_payload recognises.  The variable `variant` says which      *)
(* script is running.  main.py and stress.py have a recording session      *)
(* started and stopped by two buttons; stress.py derives a stress value    *)
(* from every 0x83 row (calculate_metrics).                                *)
(***************************************************************************)
EXTENDS Integers, Sequences, FiniteSets, TLC

VARIABLES
    variant,          \* which script runs: "main", "band_sep" or "stress"
    wire,             \* bytes the headset has still to send
    in_waiting,       \* bytes in the serial port's input buffer
    received,         \* history: every byte read from the port so far
    pc,               \* "idle", or "parse" inside parse_packet's while loop
    raised,           \* an exception left parse_packet
    packet_buffer,    \* self.packet_buffer
    packet_state,     \* self.packet_state
    payload_length,   \* self.payload_length (Undefined until PLENGTH sets it)
    payload,          \* self.payload (set together with payload_length)
    forwarded,        \* history: the payloads handed to parse_payload
    emitted,          \* history: the items parse_payload stored, in order
    raw_data,         \* self.raw_data
    attention_data,   \* self.attention_data
    meditation_data,  \* self.meditation_data
    signal_quality,   \* self.signal_quality
    bands,            \* self.bands
    stress_index,     \* self.stress_index (stress.py)
    attention_values, \* self.attention_values (main.py)
    meditation_values,\* self.meditation_values (main.py)
    stress_values_during_monitoring,  \* stress.py
    is_monitoring,    \* self.is_monitoring (main.py, stress.py)
    btn_start,        \* the Start button is active (start_btn in stress.py)
    btn_stop,         \* the Stop button is active (stop_btn in stress.py)
    clicks_left,      \* button clicks the user has still to make
    taken             \* history: every byte removed from packet_buffer, in
                      \* order, with the branch of parse_packet that removed it

framerVars == <<packet_buffer, packet_state, payload_length, payload>>
sinkVars == <<raw_data, attention_data, meditation_data, signal_quality, bands,
              stress_index, attention_values, meditation_values,
              stress_values_during_monitoring>>
portVars == <<wire, in_waiting, received>>
uiVars == <<is_monitoring, btn_start, btn_stop, clicks_left>>
vars == <<variant, portVars, pc, raised, framerVars, forwarded, emitted, taken,
          sinkVars, uiVars>>

(***************************************************************************)
(* Program constants                                                       *)
(***************************************************************************)
SYNC == 170
MAX_PLENGTH == 170
EXCODE == 85
HIGH_BIT == 128
CODE_RAW == 128
CODE_EEG_POWER == 131
CODE_POOR_SIGNAL == 2
CODE_ATTENTION == 4
CODE_MEDITATION == 5
EEG_POWER_BYTES == 24
RAW_BYTES == 2
raw_maxlen == 512
buffer_size == 100
Undefined == -1

Byte == 0..255
States == {"SYNC1", "SYNC2", "PLENGTH", "PAYLOAD", "CHECKSUM"}
Variants == {"main", "band_sep", "stress"}
BandNames == <<"Delta", "Theta", "Low-Alpha", "High-Alpha",
               "Low-Beta", "High-Beta", "Low-Gamma", "Mid-Gamma">>

(***************************************************************************)
(* Python helpers                                                          *)
(***************************************************************************)
Min(a, b) == IF a < b THEN a ELSE b

\* s[a:b] with 0 <= a, 0 <= b: the slice is cut at the end of s
Slice(s, a, b) ==
    IF a >= Min(b, Len(s)) THEN <<>> ELSE SubSeq(s, a + 1, Min(b, Len(s)))

\* sum(s), adding the two halves so that the evaluation stays shallow
RECURSIVE sum(_)
sum(s) ==
    IF Len(s) = 0 THEN 0
    ELSE IF Len(s) = 1 THEN s[1]
    ELSE LET h == Len(s) \div 2
         IN  sum(SubSeq(s, 1, h)) + sum(SubSeq(s, h + 1, Len(s)))

\* as from_bytes, with byteorder='little'
RECURSIVE from_bytes_little(_)
from_bytes_little(bs) ==
    IF bs = <<>> THEN 0
    ELSE bs[1] + 256 * from_bytes_little(SubSeq(bs, 2, Len(bs)))

\* int.from_bytes(bs, byteorder='big', signed=False)
RECURSIVE from_bytes(_)
from_bytes(bs) ==
    IF bs = <<>> THEN 0
    ELSE from_bytes(SubSeq(bs, 1, Len(bs) - 1)) * 256 + bs[Len(bs)]

\* as from_bytes_signed, with signed=False
from_bytes_unsigned(bs) == from_bytes(bs)

\* int.from_bytes(bs, byteorder='big', signed=True)
from_bytes_signed(bs) ==
    LET u == from_bytes(bs)
        half == 2 ^ (8 * Len(bs) - 1)
    IN  IF bs # <<>> /\ u >= half THEN u - 2 * half ELSE u

\* as DequeAppend, with appendleft in place of append
DequeAppendLeft(d, v, n) ==
    IF Len(d) >= n THEN <<v>> \o SubSeq(d, 1, Len(d) - 1) ELSE <<v>> \o d

\* deque(maxlen=n).append(v)
DequeAppend(d, v, n) ==
    IF Len(d) >= n THEN Tail(d) \o <<v>> ELSE Append(d, v)

(***************************************************************************)
(* parse_payload: the rows of one payload, left to right.  Each item       *)
(* records the payload offset `at` of the first value byte it was decoded  *)
(* from.                                                                   *)
(***************************************************************************)
Item(kind, band, value, at) ==
    [kind |-> kind, band |-> band, value |-> value, at |-> at]

\* code & 0x80
HighBit(code) == (code \div HIGH_BIT) % 2 = 1

\* as SkipExcode, with `if` in place of the inner `while`: one 0x55 at most
SkipExcode_one(p, i) ==
    IF i < Len(p) /\ p[i + 1] = EXCODE THEN i + 1 ELSE i

\* the inner while loop over 0x55 bytes: i ends at the first offset from i
\* on that is the end of the payload or does not hold 0x55
SkipExcode(p, i) ==
    IF i >= Len(p) THEN i
    ELSE LET stops == {j \in i..Len(p) : j = Len(p) \/ p[j + 1] # EXCODE}
         IN  CHOOSE j \in stops : \A k \in stops : j <= k

\* the for loop over self.bands.items() of a 0x83 row
BandItems(value_data, at) ==
    [k \in 1..Len(BandNames) |->
        Item("BandPower", BandNames[k],
             from_bytes(Slice(value_data, (k - 1) * 3, (k - 1) * 3 + 3)),
             at + (k - 1) * 3)]

EegPowerRow(value_data, at) ==
    IF Len(value_data) >= EEG_POWER_BYTES THEN BandItems(value_data, at) ELSE <<>>

\* as RawRow, without the test of len(value_data)
RawRow_any(value_data, at) ==
    <<Item("RawEEG", "", from_bytes_signed(Slice(value_data, 0, 2)), at)>>

RawRow(value_data, at) ==
    IF Len(value_data) >= RAW_BYTES
    THEN <<Item("RawEEG", "", from_bytes_signed(Slice(value_data, 0, 2)), at)>>
    ELSE <<>>

\* the body of `if code & 0x80:` after value_data is sliced
main_multi(code, value_data, at) ==
    IF code = CODE_RAW THEN RawRow(value_data, at) ELSE <<>>

band_sep_multi(code, value_data, at) ==
    IF code = CODE_EEG_POWER THEN EegPowerRow(value_data, at)
    ELSE IF code = CODE_RAW THEN RawRow(value_data, at)
    ELSE <<>>

stress_multi(code, value_data, at) ==
    IF code = CODE_EEG_POWER THEN EegPowerRow(value_data, at) ELSE <<>>

MultiByteRow(v, code, value_data, at) ==
    CASE v = "main" -> main_multi(code, value_data, at)
      [] v = "band_sep" -> band_sep_multi(code, value_data, at)
      [] v = "stress" -> stress_multi(code, value_data, at)

\* as main_single, with the attention value raised by the number of values
\* the attention buffer holds
main_single_counting(code, value, at) ==
    IF code = CODE_POOR_SIGNAL THEN <<Item("SignalQuality", "", value, at)>>
    ELSE IF code = CODE_ATTENTION
         THEN <<Item("Attention", "", value + Len(attention_data), at)>>
    ELSE IF code = CODE_MEDITATION THEN <<Item("Meditation", "", value, at)>>
    ELSE <<>>

\* as main_single, with the branches of 0x04 and 0x05 exchanged
main_single_swapped(code, value, at) ==
    IF code = CODE_POOR_SIGNAL THEN <<Item("SignalQuality", "", value, at)>>
    ELSE IF code = CODE_ATTENTION THEN <<Item("Meditation", "", value, at)>>
    ELSE IF code = CODE_MEDITATION THEN <<Item("Attention", "", value, at)>>
    ELSE <<>>

\* the body of the single-byte branch once `value` is read
main_single(code, value, at) ==
    IF code = CODE_POOR_SIGNAL THEN <<Item("SignalQuality", "", value, at)>>
    ELSE IF code = CODE_ATTENTION THEN <<Item("Attention", "", value, at)>>
    ELSE IF code = CODE_MEDITATION THEN <<Item("Meditation", "", value, at)>>
    ELSE <<>>

band_sep_single(code, value, at) ==
    IF code = CODE_POOR_SIGNAL THEN <<Item("SignalQuality", "", value, at)>> ELSE <<>>

stress_single(code, value, at) ==
    IF code = CODE_POOR_SIGNAL THEN <<Item("SignalQuality", "", value, at)>> ELSE <<>>

SingleByteRow(v, code, value, at) ==
    CASE v = "main" -> main_single(code, value, at)
      [] v = "band_sep" -> band_sep_single(code, value, at)
      [] v = "stress" -> stress_single(code, value, at)

\* main.py reads a missing value byte as 0; band_sep.py and stress.py break
MissingValueBreaks(v) == v # "main"

\* as AfterValueData, with `i = i - 2 + length`
AfterValueData_back(i, length) == i - 2 + length

\* as AfterValueData, without the statement `i += length`
AfterValueData_stay(i, length) == i

\* `i += length` after value_data is sliced
AfterValueData(i, length) == i + length

\* one pass of the outer while loop entered with offset i0 < len(payload):
\* the items it stores, the offset i it leaves and whether it left by break
RowPass(v, p, i0) ==
    LET i == SkipExcode(p, i0) IN
    IF i >= Len(p) THEN [items |-> <<>>, i |-> i, brk |-> TRUE]
    ELSE LET code == p[i + 1] IN
         IF HighBit(code)
         THEN IF i + 1 >= Len(p) THEN [items |-> <<>>, i |-> i + 1, brk |-> TRUE]
              ELSE LET length == p[i + 2]
                       value_data == Slice(p, i + 2, i + 2 + length)
                   IN  [items |-> MultiByteRow(v, code, value_data, i + 2),
                        i |-> AfterValueData(i + 2, length),
                        brk |-> FALSE]
         ELSE IF i + 1 >= Len(p) /\ MissingValueBreaks(v)
              THEN [items |-> <<>>, i |-> i + 1, brk |-> TRUE]
              ELSE LET value == IF i + 1 < Len(p) THEN p[i + 2] ELSE 0
                   IN  [items |-> SingleByteRow(v, code, value, i + 1),
                        i |-> i + 2,
                        brk |-> FALSE]

\* the local state of parse_payload at a test of `while i < len(payload)`:
\* the offset i, the items stored so far, whether the loop was left by
\* break, and the values i had at the tests so far
DecodeStart ==
    [i |-> 0, items |-> <<>>, brk |-> FALSE, scan |-> <<0>>]

\* the test of the while loop and, when it passes, one pass of the body
WhilePass(v, p, st) ==
    IF st.brk \/ ~(st.i < Len(p)) THEN st
    ELSE LET r == RowPass(v, p, st.i)
         IN  [i |-> r.i, items |-> st.items \o r.items, brk |-> r.brk,
              scan |-> Append(st.scan, r.i)]

\* the loop has been left: by break, or by its test failing
LoopLeft(p, st) == st.brk \/ ~(st.i < Len(p))

\* up to k tests of the while loop in a row, as two halves so that the
\* evaluation stays shallow; the second half runs if the first has not left
\* the loop
RECURSIVE Passes(_, _, _, _)
Passes(v, p, st, k) ==
    IF k = 0 THEN st
    ELSE IF k = 1 THEN WhilePass(v, p, st)
    ELSE LET mid == Passes(v, p, st, k \div 2)
         IN  IF LoopLeft(p, mid) THEN mid
             ELSE Passes(v, p, mid, k - k \div 2)

\* the while loop, given one pass for every byte of the payload
parse_loop(v, p) == Passes(v, p, DecodeStart, Len(p))

parse_payload(v, p) == parse_loop(v, p).items

\* the values of i at the tests of the while loop, or at the break
scan_offsets(v, p) == parse_loop(v, p).scan

(***************************************************************************)
(* The consumer buffers parse_payload writes                               *)
(***************************************************************************)
\* the attributes parse_payload reads and writes
Sinks ==
    [raw_data |-> raw_data, attention_data |-> attention_data,
     meditation_data |-> meditation_data, signal_quality |-> signal_quality,
     bands |-> bands, stress_index |-> stress_index,
     attention_values |-> attention_values,
     meditation_values |-> meditation_values,
     stress_values_during_monitoring |-> stress_values_during_monitoring,
     is_monitoring |-> is_monitoring]

\* d[-1]
Last(d) == d[Len(d)]

\* min(1000, total_beta / total_alpha * 500) for total_alpha > 0, and the 0
\* of the other branch, as the fraction num / den the value is 500 times of
\* (Python holds the double nearest to it); 1000 is reached from a ratio of 2
Fraction(num, den) == [num |-> num, den |-> den]

StressValue(total_beta, total_alpha) ==
    IF total_alpha > 0
    THEN IF total_beta >= 2 * total_alpha
         THEN Fraction(2, 1)
         ELSE Fraction(total_beta, total_alpha)
    ELSE Fraction(0, 1)

\* as SessionAppend, without the test of is_monitoring
SessionAppend_always(monitoring, values, value) == Append(values, value)

\* if self.is_monitoring: <values>.append(value)
SessionAppend(monitoring, values, value) ==
    IF monitoring THEN Append(values, value) ELSE values

\* as calculate_metrics, appending nothing when total_alpha is 0
calculate_metrics_positive(s) ==
    IF /\ Len(s.bands["Low-Alpha"]) > 0 /\ Len(s.bands["High-Alpha"]) > 0
       /\ Len(s.bands["Low-Beta"]) > 0 /\ Len(s.bands["High-Beta"]) > 0
    THEN LET total_alpha == Last(s.bands["Low-Alpha"]) + Last(s.bands["High-Alpha"])
             total_beta == Last(s.bands["Low-Beta"]) + Last(s.bands["High-Beta"])
             stress_value == StressValue(total_beta, total_alpha)
         IN  IF total_alpha > 0
             THEN [s EXCEPT !.stress_index = DequeAppend(@, stress_value, buffer_size),
                            !.stress_values_during_monitoring =
                                SessionAppend(s.is_monitoring, @, stress_value)]
             ELSE s
    ELSE s

\* stress.py: both branches of `if total_alpha > 0` append one value
calculate_metrics(s) ==
    IF /\ Len(s.bands["Low-Alpha"]) > 0 /\ Len(s.bands["High-Alpha"]) > 0
       /\ Len(s.bands["Low-Beta"]) > 0 /\ Len(s.bands["High-Beta"]) > 0
    THEN LET total_alpha == Last(s.bands["Low-Alpha"]) + Last(s.bands["High-Alpha"])
             total_beta == Last(s.bands["Low-Beta"]) + Last(s.bands["High-Beta"])
             stress_value == StressValue(total_beta, total_alpha)
         IN  [s EXCEPT !.stress_index = DequeAppend(@, stress_value, buffer_size),
                       !.stress_values_during_monitoring =
                           SessionAppend(s.is_monitoring, @, stress_value)]
    ELSE s

\* the statement that stores one decoded item; in main.py the attention and
\* meditation values go to the session lists as well while recording, and in
\* stress.py calculate_metrics follows the append to the last band
Store(v, s, it) ==
    CASE it.kind = "RawEEG" ->
            [s EXCEPT !.raw_data = DequeAppend(@, it.value, raw_maxlen)]
      [] it.kind = "Attention" ->
            [s EXCEPT !.attention_data = DequeAppend(@, it.value, raw_maxlen),
                      !.attention_values =
                          SessionAppend(s.is_monitoring, @, it.value)]
      [] it.kind = "Meditation" ->
            [s EXCEPT !.meditation_data = DequeAppend(@, it.value, raw_maxlen),
                      !.meditation_values =
                          SessionAppend(s.is_monitoring, @, it.value)]
      [] it.kind = "SignalQuality" ->
            IF v = "stress" THEN s ELSE [s EXCEPT !.signal_quality = it.value]
      [] it.kind = "BandPower" ->
            LET t == [s EXCEPT !.bands[it.band] = DequeAppend(@, it.value, buffer_size)]
            IN  IF v = "stress" /\ it.band = BandNames[Len(BandNames)]
                THEN calculate_metrics(t)
                ELSE t

\* the stores of the items in order, as two halves so that the evaluation
\* stays shallow: the second half goes on from the buffers the first has left
RECURSIVE StoreAll(_, _, _)
StoreAll(v, s, items) ==
    IF Len(items) = 0 THEN s
    ELSE IF Len(items) = 1 THEN Store(v, s, items[1])
    ELSE LET h == Len(items) \div 2
             mid == StoreAll(v, s, SubSeq(items, 1, h))
         IN  IF mid = s THEN StoreAll(v, s, SubSeq(items, h + 1, Len(items)))
             ELSE StoreAll(v, mid, SubSeq(items, h + 1, Len(items)))

(***************************************************************************)
(* The recording session of main.py (start_recording, stop_recording) and  *)
(* of stress.py (start_monitoring, stop_monitoring)                        *)
(***************************************************************************)
Session ==
    [is_monitoring |-> is_monitoring, btn_start |-> btn_start,
     btn_stop |-> btn_stop, attention_values |-> attention_values,
     meditation_values |-> meditation_values,
     stress_values_during_monitoring |-> stress_values_during_monitoring]

start_recording(r) ==
    IF ~r.is_monitoring
    THEN [r EXCEPT !.is_monitoring = TRUE,
                   !.attention_values = <<>>,
                   !.meditation_values = <<>>,
                   !.btn_start = FALSE,
                   !.btn_stop = TRUE]
    ELSE r

stop_recording(r) ==
    IF r.is_monitoring
    THEN [r EXCEPT !.is_monitoring = FALSE,
                   !.btn_start = TRUE,
                   !.btn_stop = FALSE]
    ELSE r

start_monitoring(r) ==
    IF ~r.is_monitoring
    THEN [r EXCEPT !.is_monitoring = TRUE,
                   !.stress_values_during_monitoring = <<>>,
                   !.btn_start = FALSE,
                   !.btn_stop = TRUE]
    ELSE r

stop_monitoring(r) ==
    IF r.is_monitoring
    THEN [r EXCEPT !.is_monitoring = FALSE,
                   !.btn_start = TRUE,
                   !.btn_stop = FALSE]
    ELSE r

\* the callback btn_start.on_clicked and btn_stop.on_clicked registered
OnStart(v, r) == IF v = "main" THEN start_recording(r) ELSE start_monitoring(r)
OnStop(v, r) == IF v = "main" THEN stop_recording(r) ELSE stop_monitoring(r)

\* band_sep.py has no buttons
HasButtons(v) == v \in {"main", "stress"}

(***************************************************************************)
(* parse_packet: one pass of the while loop per state                      *)
(*                                                                         *)
(* A framer value f carries the attributes parse_packet reads and writes,  *)
(* the payloads it forwarded in this call (fwd) and whether it raised:     *)
(* payload_length and payload do not exist before PLENGTH assigns them,    *)
(* and reading them before that raises AttributeError.                     *)
(***************************************************************************)
Framer ==
    [packet_state |-> packet_state, packet_buffer |-> packet_buffer,
     payload_length |-> payload_length, payload |-> payload,
     fwd |-> <<>>, raised |-> FALSE]

FreshFramer ==
    [packet_state |-> "SYNC1", packet_buffer |-> <<>>,
     payload_length |-> Undefined, payload |-> <<>>,
     fwd |-> <<>>, raised |-> FALSE]

\* as calculated_checksum, without the inversion
calculated_checksum_plain(p) == sum(p) % 256

\* (~sum(self.payload) & 0xFF)
calculated_checksum(p) == (-sum(p) - 1) % 256

Sync1Step(f) ==
    [f EXCEPT !.packet_state = IF Head(f.packet_buffer) = SYNC THEN "SYNC2" ELSE @,
              !.packet_buffer = Tail(@)]

\* as Sync2Step, leaving a byte that is not 0xAA in the buffer for SYNC1
Sync2Step_keep(f) ==
    IF Len(f.packet_buffer) >= 1
    THEN IF Head(f.packet_buffer) = SYNC
         THEN [f EXCEPT !.packet_state = "PLENGTH", !.packet_buffer = Tail(@)]
         ELSE [f EXCEPT !.packet_state = "SYNC1"]
    ELSE f

\* as Sync2Step, going to PAYLOAD from the second sync byte
Sync2Step_skip(f) ==
    IF Len(f.packet_buffer) >= 1
    THEN [f EXCEPT !.packet_state =
                       IF Head(f.packet_buffer) = SYNC THEN "PAYLOAD" ELSE "SYNC1",
                   !.packet_buffer = Tail(@)]
    ELSE f

Sync2Step(f) ==
    IF Len(f.packet_buffer) >= 1
    THEN [f EXCEPT !.packet_state =
                       IF Head(f.packet_buffer) = SYNC THEN "PLENGTH" ELSE "SYNC1",
                   !.packet_buffer = Tail(@)]
    ELSE f

\* as PLengthStep, rejecting the length 170 as well
PLengthStep_ge(f) ==
    IF Len(f.packet_buffer) >= 1
    THEN LET plength == Head(f.packet_buffer) IN
         [f EXCEPT !.packet_state =
                       IF plength >= MAX_PLENGTH THEN "SYNC1" ELSE "PAYLOAD",
                   !.packet_buffer = Tail(@),
                   !.payload_length = plength,
                   !.payload = <<>>]
    ELSE f

\* as PLengthStep, without the two assignments that end the branch
PLengthStep_noassign(f) ==
    IF Len(f.packet_buffer) >= 1
    THEN LET plength == Head(f.packet_buffer) IN
         [f EXCEPT !.packet_state =
                       IF plength > MAX_PLENGTH THEN "SYNC1" ELSE "PAYLOAD",
                   !.packet_buffer = Tail(@)]
    ELSE f

PLengthStep(f) ==
    IF Len(f.packet_buffer) >= 1
    THEN LET plength == Head(f.packet_buffer) IN
         [f EXCEPT !.packet_state =
                       IF plength > MAX_PLENGTH THEN "SYNC1" ELSE "PAYLOAD",
                   !.packet_buffer = Tail(@),
                   !.payload_length = plength,
                   !.payload = <<>>]
    ELSE f

\* as PayloadReady, without the comparison with the declared length
PayloadReady_any(f) == TRUE

\* as PayloadReady, with > in place of >=
PayloadReady_more(f) == Len(f.packet_buffer) > f.payload_length

\* len(self.packet_buffer) >= self.payload_length
PayloadReady(f) == Len(f.packet_buffer) >= f.payload_length

\* as PayloadStep, handing the payload on before its checksum is read
PayloadStep_early(f) ==
    IF f.payload_length = Undefined
    THEN [f EXCEPT !.raised = TRUE]
    ELSE [f EXCEPT !.payload = @ \o Slice(f.packet_buffer, 0, f.payload_length),
                   !.packet_buffer = Slice(@, f.payload_length, Len(@)),
                   !.fwd = Append(@, f.payload \o Slice(f.packet_buffer, 0, f.payload_length)),
                   !.packet_state = "CHECKSUM"]

\* as PayloadStep, leaving the last payload byte in the buffer
PayloadStep_overlap(f) ==
    IF f.payload_length = Undefined
    THEN [f EXCEPT !.raised = TRUE]
    ELSE [f EXCEPT !.payload = @ \o Slice(f.packet_buffer, 0, f.payload_length),
                   !.packet_buffer =
                       Slice(@, IF f.payload_length > 0 THEN f.payload_length - 1 ELSE 0,
                             Len(@)),
                   !.packet_state = "CHECKSUM"]

PayloadStep(f) ==
    IF f.payload_length = Undefined
    THEN [f EXCEPT !.raised = TRUE]
    ELSE [f EXCEPT !.payload = @ \o Slice(f.packet_buffer, 0, f.payload_length),
                   !.packet_buffer = Slice(@, f.payload_length, Len(@)),
                   !.packet_state = "CHECKSUM"]

\* as ChecksumStep, comparing only the low seven bits
ChecksumStep_low7(f) ==
    IF Len(f.packet_buffer) >= 1
    THEN IF f.payload_length = Undefined
         THEN [f EXCEPT !.packet_buffer = Tail(@), !.raised = TRUE]
         ELSE LET checksum == Head(f.packet_buffer) IN
              [f EXCEPT !.packet_buffer = Tail(@),
                        !.fwd = IF checksum % 128 = calculated_checksum(f.payload) % 128
                                THEN Append(@, f.payload) ELSE @,
                        !.packet_state = "SYNC1"]
    ELSE f

\* as ChecksumStep, going back to SYNC1 only when the checksum matches
ChecksumStep_stay(f) ==
    IF Len(f.packet_buffer) >= 1
    THEN IF f.payload_length = Undefined
         THEN [f EXCEPT !.packet_buffer = Tail(@), !.raised = TRUE]
         ELSE LET checksum == Head(f.packet_buffer) IN
              [f EXCEPT !.packet_buffer = Tail(@),
                        !.fwd = IF checksum = calculated_checksum(f.payload)
                                THEN Append(@, f.payload) ELSE @,
                        !.packet_state = IF checksum = calculated_checksum(f.payload)
                                         THEN "SYNC1" ELSE @]
    ELSE f

\* as ChecksumStep, leaving the checksum byte in the buffer
ChecksumStep_peek(f) ==
    IF Len(f.packet_buffer) >= 1
    THEN IF f.payload_length = Undefined
         THEN [f EXCEPT !.raised = TRUE]
         ELSE LET checksum == Head(f.packet_buffer) IN
              [f EXCEPT !.fwd = IF checksum = calculated_checksum(f.payload)
                                THEN Append(@, f.payload) ELSE @,
                        !.packet_state = "SYNC1"]
    ELSE f

ChecksumStep(f) ==
    IF Len(f.packet_buffer) >= 1
    THEN IF f.payload_length = Undefined
         THEN [f EXCEPT !.packet_buffer = Tail(@), !.raised = TRUE]
         ELSE LET checksum == Head(f.packet_buffer) IN
              [f EXCEPT !.packet_buffer = Tail(@),
                        !.fwd = IF checksum = calculated_checksum(f.payload)
                                THEN Append(@, f.payload) ELSE @,
                        !.packet_state = "SYNC1"]
    ELSE f

\* as Breaks, without the `break` of the PAYLOAD branch
Breaks_checksum(f) ==
    f.packet_state = "CHECKSUM" /\ Len(f.packet_buffer) < 1

\* the `break` statements of the PAYLOAD and CHECKSUM branches
Breaks(f) ==
    \/ f.packet_state = "PAYLOAD" /\ f.payload_length # Undefined /\ ~PayloadReady(f)
    \/ f.packet_state = "CHECKSUM" /\ Len(f.packet_buffer) < 1

\* one pass of the loop body
LoopBody(f) ==
    CASE f.packet_state = "SYNC1" -> Sync1Step(f)
      [] f.packet_state = "SYNC2" -> Sync2Step(f)
      [] f.packet_state = "PLENGTH" -> PLengthStep(f)
      [] f.packet_state = "PAYLOAD" -> PayloadStep(f)
      [] f.packet_state = "CHECKSUM" -> ChecksumStep(f)

\* while len(self.packet_buffer) > 0: ... run until the loop is left
RECURSIVE parse_packet(_)
parse_packet(f) ==
    IF f.raised \/ ~(Len(f.packet_buffer) > 0) \/ Breaks(f) THEN f
    ELSE parse_packet(LoopBody(f))

\* self.packet_buffer.extend(new_data); self.parse_packet()
Feed(f, new_data) ==
    parse_packet([f EXCEPT !.packet_buffer = @ \o new_data])

(***************************************************************************)
(* The byte streams the headset sends                                      *)
(***************************************************************************)
MaxNoise == 4
MaxPre == 2
NoiseBytes == {0, SYNC, MAX_PLENGTH + 1, 255}

SeqsUpTo(S, n) == UNION {[1..k -> S] : k \in 0..n}

\* the checksum the protocol prescribes: the inverted low byte of the sum
Checksum(p) == 255 - (sum(p) % 256)

Frame(p, cs) == <<SYNC, SYNC, Len(p)>> \o p \o <<cs>>
Packet(p) == Frame(p, Checksum(p))

\* byte c with bit k inverted
Flip(c, k) == IF (c \div (2 ^ k)) % 2 = 1 THEN c - 2 ^ k ELSE c + 2 ^ k

LongPayload == [j \in 1..MAX_PLENGTH |-> IF j % 2 = 1 THEN CODE_ATTENTION ELSE j \div 2]

Payloads ==
    { <<>>,
      <<4, 60, 5, 45>>,
      <<2, 25, 4, 61>>,
      <<128, 2, 0, 10, 128, 2, 255, 255>>,
      <<170, 170>>,
      <<131, 24>> \o [j \in 1..24 |-> j],
      LongPayload }

ShortPayloads == {p \in Payloads : Len(p) <= 8}

Streams ==
    SeqsUpTo(NoiseBytes, MaxNoise)
    \cup {Packet(p) : p \in Payloads}
    \cup {n \o Packet(p) : n \in SeqsUpTo(NoiseBytes, MaxPre), p \in ShortPayloads}
    \cup {Frame(p, Flip(Checksum(p), k)) \o q :
            p \in ShortPayloads, k \in 0..7, q \in {<<>>, Packet(<<4, 60, 5, 45>>)}}
    \cup {Packet(p) \o Packet(q) : p \in ShortPayloads, q \in ShortPayloads}

\* the streams and payloads during which the user clicks the buttons, and
\* the number of clicks
MaxClicks == 3
SessionPayloads == {<<4, 60, 5, 45>>, <<2, 25, 4, 61>>, <<131, 24>> \o [j \in 1..24 |-> j]}

SessionStreams ==
    {Packet(p) : p \in SessionPayloads}
    \cup {Packet(<<4, 60, 5, 45>>) \o Packet(<<2, 25, 4, 61>>)}

ClicksFor(v, chosen) == IF HasButtons(v) /\ chosen THEN {MaxClicks} ELSE {0}

(***************************************************************************)
(* State after __init__                                                    *)
(***************************************************************************)
Init ==
    /\ variant \in Variants
    /\ wire \in Streams
    /\ in_waiting = <<>>
    /\ received = <<>>
    /\ pc = "idle"
    /\ raised = FALSE
    /\ packet_buffer = <<>>
    /\ packet_state = "SYNC1"
    /\ payload_length = Undefined
    /\ payload = <<>>
    /\ forwarded = <<>>
    /\ emitted = <<>>
    /\ raw_data = <<>>
    /\ attention_data = <<>>
    /\ meditation_data = <<>>
    /\ signal_quality = 0
    /\ bands = [b \in {BandNames[k] : k \in 1..Len(BandNames)} |-> <<>>]
    /\ stress_index = <<>>
    /\ attention_values = <<>>
    /\ meditation_values = <<>>
    /\ stress_values_during_monitoring = <<>>
    /\ is_monitoring = FALSE
    /\ btn_start = TRUE
    /\ btn_stop = FALSE
    /\ clicks_left \in ClicksFor(variant, wire \in SessionStreams)
    /\ taken = <<>>

(***************************************************************************)
(* Actions                                                                 *)
(***************************************************************************)
\* number of bytes removed from the front of packet_buffer so far
Consumed == Len(received) - Len(packet_buffer)

\* the serial driver puts the next byte of the wire into the port's buffer
Arrive ==
    /\ wire # <<>>
    /\ in_waiting' = Append(in_waiting, Head(wire))
    /\ wire' = Tail(wire)
    /\ UNCHANGED <<variant, received, pc, raised, framerVars, forwarded, emitted,
                   taken, sinkVars, uiVars>>

\* update_plot up to the call of parse_packet
UpdatePlot ==
    /\ pc = "idle"
    /\ ~raised
    /\ IF Len(in_waiting) > 0
       THEN /\ packet_buffer' = packet_buffer \o in_waiting
            /\ received' = received \o in_waiting
            /\ in_waiting' = <<>>
            /\ pc' = "parse"
       ELSE UNCHANGED <<packet_buffer, received, in_waiting, pc>>
    /\ UNCHANGED <<variant, wire, raised, packet_state, payload_length, payload,
                   forwarded, emitted, taken, sinkVars, uiVars>>

\* the branch of parse_packet that removes a byte from the buffer says what
\* the byte is: in SYNC1 and SYNC2 a sync byte if it is 0xAA and discarded
\* noise if not
ClassOf(state, b) ==
    CASE state \in {"SYNC1", "SYNC2"} -> IF b = SYNC THEN "sync" ELSE "noise"
      [] state = "PLENGTH" -> "length"
      [] state = "PAYLOAD" -> "payload"
      [] state = "CHECKSUM" -> "checksum"

\* the bytes bs removed by the branch of `state`
TakenOf(state, bs) ==
    [k \in 1..Len(bs) |-> [byte |-> bs[k], class |-> ClassOf(state, bs[k])]]

\* the attributes after one pass of the loop body, and parse_payload's effects
\* when the pass forwarded the payload
Commit(f) ==
    /\ packet_state' = f.packet_state
    /\ packet_buffer' = f.packet_buffer
    /\ payload_length' = f.payload_length
    /\ payload' = f.payload
    /\ raised' = f.raised
    /\ taken' = taken \o TakenOf(packet_state,
                                 SubSeq(packet_buffer, 1,
                                        Len(packet_buffer) - Len(f.packet_buffer)))
    /\ IF f.fwd = <<>>
       THEN UNCHANGED <<forwarded, emitted, sinkVars>>
       ELSE LET items == parse_payload(variant, f.fwd[1])
                s == StoreAll(variant, Sinks, items)
            IN  /\ forwarded' = Append(forwarded,
                                       [payload |-> f.fwd[1],
                                        end |-> Len(received) - Len(f.packet_buffer)])
                /\ emitted' = emitted \o
                       [j \in 1..Len(items) |->
                           [pkt |-> Len(forwarded) + 1, item |-> items[j]]]
                /\ raw_data' = s.raw_data
                /\ attention_data' = s.attention_data
                /\ meditation_data' = s.meditation_data
                /\ signal_quality' = s.signal_quality
                /\ bands' = s.bands
                /\ stress_index' = s.stress_index
                /\ attention_values' = s.attention_values
                /\ meditation_values' = s.meditation_values
                /\ stress_values_during_monitoring' = s.stress_values_during_monitoring
    /\ UNCHANGED <<variant, portVars, pc, uiVars>>

InLoop(state) ==
    /\ pc = "parse"
    /\ ~raised
    /\ Len(packet_buffer) > 0
    /\ packet_state = state
    /\ ~Breaks(Framer)

Sync1 == InLoop("SYNC1") /\ Commit(Sync1Step(Framer))
Sync2 == InLoop("SYNC2") /\ Commit(Sync2Step(Framer))
PLength == InLoop("PLENGTH") /\ Commit(PLengthStep(Framer))
Payload == InLoop("PAYLOAD") /\ Commit(PayloadStep(Framer))
ChecksumRead == InLoop("CHECKSUM") /\ Commit(ChecksumStep(Framer))

\* a `break` leaves the loop with bytes still buffered
Break ==
    /\ pc = "parse"
    /\ ~raised
    /\ Len(packet_buffer) > 0
    /\ Breaks(Framer)
    /\ pc' = "idle"
    /\ UNCHANGED <<variant, portVars, raised, framerVars, forwarded, emitted,
                   taken, sinkVars, uiVars>>

\* the loop condition fails: the buffer is empty
LoopExit ==
    /\ pc = "parse"
    /\ ~raised
    /\ Len(packet_buffer) = 0
    /\ pc' = "idle"
    /\ UNCHANGED <<variant, portVars, raised, framerVars, forwarded, emitted,
                   taken, sinkVars, uiVars>>

\* the session attributes after a button's callback
Clicked(r) ==
    /\ is_monitoring' = r.is_monitoring
    /\ btn_start' = r.btn_start
    /\ btn_stop' = r.btn_stop
    /\ attention_values' = r.attention_values
    /\ meditation_values' = r.meditation_values
    /\ stress_values_during_monitoring' = r.stress_values_during_monitoring
    /\ clicks_left' = clicks_left - 1
    /\ UNCHANGED <<variant, portVars, pc, raised, framerVars, forwarded, emitted,
                   taken, raw_data, attention_data, meditation_data,
                   signal_quality, bands, stress_index>>

\* the user clicks a button between two callbacks of the event loop; a
\* button that is not active ignores the click
CanClick == pc = "idle" /\ ~raised /\ HasButtons(variant) /\ clicks_left > 0

StartClick ==
    /\ CanClick
    /\ Clicked(IF btn_start THEN OnStart(variant, Session) ELSE Session)

StopClick ==
    /\ CanClick
    /\ Clicked(IF btn_stop THEN OnStop(variant, Session) ELSE Session)

Next ==
    \/ StartClick
    \/ StopClick
    \/ Arrive
    \/ UpdatePlot
    \/ Sync1
    \/ Sync2
    \/ PLength
    \/ Payload
    \/ ChecksumRead
    \/ Break
    \/ LoopExit

Spec == Init /\ [][Next]_vars

(***************************************************************************)
(* Vocabulary of the properties                                            *)
(***************************************************************************)
FwdPayloads == [j \in 1..Len(forwarded) |-> forwarded[j].payload]

\* every byte the headset sent has been read and parse_packet has returned
StreamEnded == wire = <<>> /\ in_waiting = <<>> /\ pc = "idle"

\* s holds, somewhere, 0xAA 0xAA <len> <payload> <checksum> with a right checksum
ContainsValidFrame(s) ==
    \E i \in 1..Len(s) : \E n \in 0..170 :
        /\ i + 3 + n <= Len(s)
        /\ s[i] = 170
        /\ s[i + 1] = 170
        /\ s[i + 2] = n
        /\ s[i + 3 + n] = Checksum(SubSeq(s, i + 3, i + 2 + n))

\* C1: a fresh framer fed exactly one well-formed packet, in whatever chunks,
\* hands exactly that payload to parse_payload, once, and is back in SYNC1.
WellFormed == [p \in Payloads |-> Packet(p)]

C1_RoundTrip ==
    \A p \in Payloads :
        (pc = "idle" /\ received = WellFormed[p]) =>
            /\ FwdPayloads = <<p>>
            /\ packet_state = "SYNC1"
            /\ packet_buffer = <<>>
            /\ ~raised

C1_Witness ==
    /\ pc = "idle"
    /\ received = Packet(LongPayload)
    /\ FwdPayloads = <<LongPayload>>
    /\ Len(LongPayload) = 170

\* C2: whatever the chunks were, the framer is where one single chunk holding
\* all the bytes read so far would have left it, with the same payloads
\* forwarded; a zero-length chunk changes nothing.
C2_ChunkIndependent ==
    (pc = "idle" /\ ~raised) =>
        LET one == Feed(FreshFramer, received) IN
        /\ one.packet_state = packet_state
        /\ one.payload_length = payload_length
        /\ one.payload = payload
        /\ one.packet_buffer = packet_buffer
        /\ one.fwd = FwdPayloads
        /\ ~one.raised
        /\ Feed(Framer, <<>>) = Framer

\* a read ended inside the payload of a second packet
C2_Witness ==
    /\ pc = "idle"
    /\ packet_state = "PAYLOAD"
    /\ packet_buffer # <<>>
    /\ Len(forwarded) = 1
    /\ Feed(FreshFramer, received).packet_buffer = packet_buffer

\* C3: a packet whose checksum byte has one bit inverted is never forwarded;
\* once its bytes are consumed the framer is in SYNC1, and a well-formed
\* packet right after it is forwarded.
BitFlipped ==
    {Frame(p, Flip(Checksum(p), k)) : p \in ShortPayloads, k \in 0..7}

C3_ChecksumRejection ==
    \A bad \in BitFlipped :
        LET n == Len(bad)
        IN  (Len(received) >= n /\ SubSeq(received, 1, n) = bad) =>
                /\ \A j \in 1..Len(forwarded) : forwarded[j].end > n
                /\ Consumed = n => packet_state = "SYNC1"
                /\ \A q \in Payloads :
                       (pc = "idle" /\ received = bad \o WellFormed[q]) =>
                           /\ FwdPayloads = <<q>>
                           /\ forwarded[1].end = Len(received)
                           /\ packet_state = "SYNC1"

C3_Witness ==
    /\ pc = "idle"
    /\ received = Frame(<<2, 25, 4, 61>>, Flip(Checksum(<<2, 25, 4, 61>>), 7))
                      \o Packet(<<4, 60, 5, 45>>)
    /\ FwdPayloads = << <<4, 60, 5, 45>> >>

\* C4: noise that holds no complete valid frame, followed by a well-formed
\* packet: once everything is consumed the packet's payload was forwarded.
C4_Resync ==
    \A i \in 0..Len(received) : \A p \in ShortPayloads :
        ( /\ StreamEnded
          /\ SubSeq(received, i + 1, Len(received)) = Packet(p)
          /\ ~ContainsValidFrame(SubSeq(received, 1, i)) ) =>
            \E j \in 1..Len(forwarded) :
                forwarded[j].payload = p /\ forwarded[j].end = Len(received)

\* C5: a payload is forwarded only by the step that reads the checksum byte,
\* only when that byte is the inverted low byte of the payload's sum, and the
\* payload is as long as its length byte said (at most 170); reading the
\* checksum byte always leads to SYNC1.
C5_ForwardOnlyChecked ==
    [][ /\ (forwarded' # forwarded) =>
              /\ packet_state = "CHECKSUM"
              /\ packet_buffer # <<>>
              /\ Head(packet_buffer) = 255 - (sum(payload) % 256)
              /\ forwarded' = Append(forwarded,
                                     [payload |-> payload, end |-> Consumed + 1])
              /\ Len(payload) = payload_length
              /\ payload_length <= 170
        /\ (packet_state = "CHECKSUM" /\ Consumed' # Consumed) =>
              /\ packet_state' = "SYNC1"
              /\ Consumed' = Consumed + 1
      ]_vars

\* a checksum byte that does not match has just been read
C5_Witness ==
    /\ pc = "parse"
    /\ packet_state = "SYNC1"
    /\ forwarded = <<>>
    /\ Consumed = 8
    /\ SubSeq(received, 1, 7) = <<170, 170, 4, 4, 60, 5, 45>>
    /\ received[8] # Checksum(<<4, 60, 5, 45>>)

\* the program, not the serial driver, takes the step
ProgramStep == wire' = wire

\* C6: a length byte above 170 is consumed alone, leads to SYNC1 and forwards
\* nothing, and nothing is accumulated as payload afterwards; a length byte
\* of 0..170 leads to PAYLOAD with an empty accumulator and that length.
C6_OversizedLength ==
    [][ /\ (pc = "parse" /\ packet_state = "PLENGTH" /\ packet_buffer # <<>>
                /\ ProgramStep) =>
              LET b == Head(packet_buffer) IN
              /\ packet_buffer' = Tail(packet_buffer)
              /\ payload' = <<>>
              /\ payload_length' = b
              /\ forwarded' = forwarded
              /\ packet_state' = IF b > 170 THEN "SYNC1" ELSE "PAYLOAD"
        /\ (payload_length > 170) =>
              /\ payload = <<>>
              /\ packet_state \notin {"PAYLOAD", "CHECKSUM"}
      ]_vars

\* 171 was read as length; the byte after it is still in the buffer
C6_Witness ==
    /\ pc = "parse"
    /\ packet_state = "SYNC1"
    /\ payload_length = 171
    /\ packet_buffer # <<>>
    /\ payload = <<>>

\* C7: no step raises, the state is always one of the five, and from every
\* state in which parse_packet has returned every byte value is accepted.
C7_Total ==
    /\ ~raised
    /\ packet_state \in {"SYNC1", "SYNC2", "PLENGTH", "PAYLOAD", "CHECKSUM"}
    /\ pc = "idle" =>
          \A b \in 0..255 :
              LET f == Feed(Framer, <<b>>) IN
              /\ ~f.raised
              /\ f.packet_state \in {"SYNC1", "SYNC2", "PLENGTH", "PAYLOAD", "CHECKSUM"}

\* the framer took a byte in each of the five states and went on
C7_Witness ==
    /\ pc = "idle"
    /\ forwarded # <<>>
    /\ packet_state = "CHECKSUM"
    /\ payload_length = Len(payload)

\* 1-based index in `received` of the first sync byte of the packet in progress
IncompleteStart ==
    CASE packet_state = "SYNC2" -> Consumed
      [] packet_state = "PLENGTH" -> Consumed - 1
      [] packet_state = "PAYLOAD" -> Consumed - 2
      [] packet_state = "CHECKSUM" -> Consumed - 2 - payload_length

\* C8: every payload handed on is a complete frame of the consumed bytes
\* (two sync bytes, its length, its bytes, the matching checksum); while a
\* packet is in progress none of its bytes has been handed on, and every item
\* stored comes from a payload that was handed on.
C8_NoPartialEmission ==
    /\ \A j \in 1..Len(forwarded) :
           LET e == forwarded[j].end
               p == forwarded[j].payload
               n == Len(p)
           IN  /\ n + 4 <= e
               /\ e <= Consumed
               /\ received[e] = Checksum(p)
               /\ SubSeq(received, e - n, e - 1) = p
               /\ received[e - n - 1] = n
               /\ received[e - n - 2] = 170
               /\ received[e - n - 3] = 170
               /\ packet_state # "SYNC1" => e < IncompleteStart
    /\ \A m \in 1..Len(emitted) : emitted[m].pkt \in 1..Len(forwarded)
    /\ forwarded = <<>> =>
           /\ emitted = <<>>
           /\ raw_data = <<>>
           /\ attention_data = <<>>
           /\ meditation_data = <<>>
           /\ \A k \in 1..8 : bands[BandNames[k]] = <<>>

\* the stream ended inside a payload whose buffered bytes hold decodable rows
C8_Witness ==
    /\ StreamEnded
    /\ packet_state = "PAYLOAD"
    /\ Len(packet_buffer) >= 2
    /\ parse_payload(variant, packet_buffer) # <<>>
    /\ emitted = <<>>

\* the values of the items of one kind (and band), in the order stored
ValuesOf(kind, band) ==
    LET sel == SelectSeq(emitted,
                         LAMBDA e : e.item.kind = kind /\ e.item.band = band)
    IN  [m \in 1..Len(sel) |-> sel[m].item.value]

\* C9: packets are handed on in the order they lie in the stream, the items
\* of one payload are stored in increasing payload offset, no item of a later
\* packet precedes one of an earlier packet, and every consumer buffer holds
\* its items in that order.
C9_OrderedDelivery ==
    /\ \A j \in 1..(Len(forwarded) - 1) :
           forwarded[j].end + Len(forwarded[j + 1].payload) + 4
               <= forwarded[j + 1].end
    /\ \A m \in 1..(Len(emitted) - 1) :
           \/ emitted[m].pkt < emitted[m + 1].pkt
           \/ /\ emitted[m].pkt = emitted[m + 1].pkt
              /\ emitted[m].item.at < emitted[m + 1].item.at
    /\ \A j \in 1..Len(forwarded) :
           Len(SelectSeq(emitted, LAMBDA e : e.pkt = j))
               = Len(parse_payload(variant, forwarded[j].payload))
    /\ raw_data = ValuesOf("RawEEG", "")
    /\ attention_data = ValuesOf("Attention", "")
    /\ meditation_data = ValuesOf("Meditation", "")
    /\ \A k \in 1..8 : bands[BandNames[k]] = ValuesOf("BandPower", BandNames[k])

\* two packets delivered, each with an attention value
C9_Witness ==
    /\ variant = "main"
    /\ Len(forwarded) = 2
    /\ attention_data = <<60, 61>>
    /\ Len(emitted) = 4

(***************************************************************************)
(* parse_payload on its own: the framer stands in CHECKSUM with a complete *)
(* payload accumulated and that payload's checksum byte next in the buffer *)
(***************************************************************************)
\* value data of a 0x83 row: byte j is j, but for slot k, which holds x y z
BandData(k, x, y, z) ==
    [j \in 1..24 |->
        IF j = 3 * k + 1 THEN x
        ELSE IF j = 3 * k + 2 THEN y
        ELSE IF j = 3 * k + 3 THEN z
        ELSE j]

BandInputs ==
    {<<131, 24>> \o BandData(k, x, y, z) :
        k \in 0..7, x \in {0, 1, 255}, y \in {0, 255}, z \in {0, 2, 255}}
    \cup {<<131, l>> \o [j \in 1..n |-> j] :
            l \in {0, 23, 24, 25, 30}, n \in {0, 1, 23, 24, 25, 30}}
    \cup {<<131, 24>> \o [j \in 1..24 |-> 255 - j] \o <<2, 7>>,
          <<2, 7, 131, 24>> \o [j \in 1..24 |-> 255 - j]}

\* 0x80 rows at offset 0 and after one single-byte row: two value bytes of
\* either sign, and declared lengths 0..5 over 0..3 bytes that follow
RawInputs ==
    LET rows == {<<128, 2, a, b>> : a \in {0, 127, 128, 255}, b \in {0, 10, 255}}
                \cup {<<128, l>> \o s :
                        l \in {0, 1, 2, 3, 5},
                        s \in {<<>>, <<255>>, <<255, 255>>, <<128, 0, 7>>}}
    IN  rows \cup {<<2, 7>> \o r : r \in rows} \cup {r \o <<2, 7>> : r \in rows}

\* payloads of up to MaxPairs (code, value) pairs of the three single-byte
\* codes; the values include 0x55 and a byte with the high bit set
MaxPairs == 2
PairRows == {<<c, x>> : c \in {2, 4, 5}, x \in {0, 85, 200}}

RECURSIVE RowSeqs(_, _)
RowSeqs(rows, n) ==
    IF n = 0 THEN {<<>>}
    ELSE LET shorter == RowSeqs(rows, n - 1)
         IN  shorter \cup {q \o r : q \in shorter, r \in rows}

PairInputs == RowSeqs(PairRows, MaxPairs) \cup {<<4, 60, 5, 45>>, <<2, 0>>}

\* complete rows, and complete rows of codes that variant v has no branch for;
\* some of the latter carry value bytes that read as rows themselves
PowerRow == <<131, 24>> \o [j \in 1..24 |-> j]

CompleteRows == {<<2, 7>>, <<4, 60>>, <<128, 2, 0, 10>>}

UnknownRows(v) ==
    {<<129, 0>>, <<129, 2, 4, 61>>, <<255, 3, 2, 9, 170>>, <<130, 1, 85>>,
     <<134, 4, 128, 2, 0, 11>>, <<1, 0>>, <<16, 85>>, <<3, 128>>}
    \cup CASE v = "main" -> {PowerRow}
           [] v = "band_sep" -> {<<4, 60>>, <<5, 45>>}
           [] v = "stress" -> {<<4, 60>>, <<5, 45>>, <<128, 2, 0, 10>>}

\* a row u between the rows r1 and r2; a payload holds one 0x83 row at most
InsertCases ==
    {[r1 |-> r1, u |-> u, r2 |-> r2] :
        r1 \in CompleteRows, r2 \in CompleteRows,
        u \in UNION {UnknownRows(v) : v \in Variants}}
    \cup {[r1 |-> r1, u |-> u, r2 |-> PowerRow] :
            r1 \in CompleteRows, u \in UnknownRows("band_sep")}

InsertInputs == {c.r1 \o c.u \o c.r2 : c \in InsertCases}

\* rows with the high bit set that declare more value bytes than follow
TruncatedInputs ==
    LET rows == {<<c, l>> \o t :
                    c \in {128, 129, 131}, l \in {1, 3, 200, 255},
                    t \in {<<>>, <<4>>, <<4, 60>>}}
    IN  {r \in rows : r[2] > Len(r) - 2}
        \cup {<<4, 60>> \o r : r \in {q \in rows : q[2] > Len(q) - 2}}

\* payloads that end with the code of a single-byte row and no value byte
MissingValueInputs ==
    {q \o <<c>> : q \in {<<>>, <<4, 60>>, <<85>>, <<129, 1, 9>>},
                  c \in {2, 4, 5, 16}}

\* every payload of up to MaxDecodeLen bytes over codes with and without a
\* branch, 0x55 and small lengths, and four payloads of the largest size
MaxDecodeLen == 3
DecodeBytes == {0, 2, 4, EXCODE, CODE_RAW, 129}

AnyInputs ==
    SeqsUpTo(DecodeBytes, MaxDecodeLen)
    \cup {[j \in 1..MAX_PLENGTH |-> b] : b \in {0, EXCODE, CODE_RAW}}
    \cup {LongPayload}

\* a run of k bytes 0x55 between the complete rows `pre` and the rows `post`;
\* some rows carry 0x55 as a value byte, and the last row of `post` may lack
\* its value byte
MaxRun == 3
ExcodeRun(k) == [j \in 1..k |-> EXCODE]

ExcodeCases ==
    {[pre |-> pre, k |-> k, post |-> post] :
        pre \in {<<>>, <<2, 7>>, <<128, 2, 0, 10>>, <<129, 1, 85>>, <<4, 85>>},
        k \in 0..MaxRun,
        post \in {<<>>, <<2, 85>>, <<4, 60, 5, 85>>, <<128, 2, 85, 85>>, <<5>>,
                  <<129, 0, 5, 45>>, PowerRow}}

ExcodeInputs == {c.pre \o ExcodeRun(c.k) \o c.post : c \in ExcodeCases}

DecodeInputs ==
    BandInputs \cup RawInputs \cup PairInputs \cup InsertInputs
        \cup TruncatedInputs \cup MissingValueInputs \cup AnyInputs
        \cup ExcodeInputs

InitDecode ==
    /\ variant \in Variants
    /\ payload \in DecodeInputs
    /\ payload_length = Len(payload)
    /\ packet_state = "CHECKSUM"
    /\ packet_buffer = <<Checksum(payload)>>
    /\ received = Packet(payload)
    /\ wire = Packet(<<2, 0>>)
    /\ in_waiting = <<>>
    /\ pc = "parse"
    /\ raised = FALSE
    /\ forwarded = <<>>
    /\ emitted = <<>>
    /\ raw_data = <<>>
    /\ attention_data = <<>>
    /\ meditation_data = <<>>
    /\ signal_quality = 0
    /\ bands = [b \in {BandNames[k] : k \in 1..Len(BandNames)} |-> <<>>]
    /\ stress_index = <<>>
    /\ attention_values = <<>>
    /\ meditation_values = <<>>
    /\ stress_values_during_monitoring = <<>>
    /\ is_monitoring = FALSE
    /\ btn_start = TRUE
    /\ btn_stop = FALSE
    /\ clicks_left \in ClicksFor(variant, payload \in SessionPayloads)
    /\ taken = TakenOf("SYNC1", <<SYNC, SYNC>>)
                  \o TakenOf("PLENGTH", <<Len(payload)>>)
                  \o TakenOf("PAYLOAD", payload)

SpecDecode == InitDecode /\ [][Next]_vars

\* the band items stored for the first payload decoded
BandItemsStored ==
    SelectSeq(emitted, LAMBDA e : e.pkt = 1 /\ e.item.kind = "BandPower")

\* C10: band_sep.py and stress.py, a payload whose 0x83 row starts at offset
\* 0, or at offset 2 after one single-byte row: with at least 24 value bytes
\* present, exactly 8 band items are stored, Delta to Mid-Gamma in this
\* order, band k (from 0) being the unsigned big-endian number of value bytes
\* 3k..3k+2; with fewer, none is stored.
C10_BandOrder ==
    \A o \in {0, 2} :
    (variant \in {"band_sep", "stress"} /\ forwarded # <<>>
         /\ Len(forwarded[1].payload) >= o + 2
         /\ forwarded[1].payload[o + 1] = 131
         /\ (o = 2 => forwarded[1].payload[1] = 2)) =>
        LET p == forwarded[1].payload
            rest == Len(p) - o - 2
            present == IF rest < p[o + 2] THEN rest ELSE p[o + 2]
            v == [j \in 1..present |-> p[o + 2 + j]]
            order == <<"Delta", "Theta", "Low-Alpha", "High-Alpha",
                       "Low-Beta", "High-Beta", "Low-Gamma", "Mid-Gamma">>
        IN  IF present >= 24
            THEN /\ Len(BandItemsStored) = 8
                 /\ \A k \in 0..7 :
                        LET it == BandItemsStored[k + 1].item
                            n == v[3 * k + 1] * 65536 + v[3 * k + 2] * 256 + v[3 * k + 3]
                        IN  /\ it.band = order[k + 1]
                            /\ it.value = n
                            /\ it.value \in 0..16777215
                            /\ bands[order[k + 1]][1] = n
                            /\ Len(bands[order[k + 1]]) = 1
            ELSE /\ BandItemsStored = <<>>
                 /\ \A k \in 1..8 : bands[order[k]] = <<>>

\* the last band holds the largest 24-bit value
C10_Witness ==
    /\ variant = "band_sep"
    /\ forwarded # <<>>
    /\ forwarded[1].payload = <<131, 24>> \o BandData(7, 255, 255, 255)
    /\ bands["Mid-Gamma"] = <<16777215>>
    /\ bands["Delta"] = <<66051>>

\* the items stored for the first payload decoded that were read at offset o
ItemsAt(o) ==
    SelectSeq(emitted, LAMBDA e : e.pkt = 1 /\ e.item.at = o)

\* C11: main.py and band_sep.py, a payload whose 0x80 row starts at offset 0,
\* or at offset 2 after one single-byte row: with at least 2 value bytes
\* present exactly one RawEEG item is stored for the row, the 16-bit two's
\* complement big-endian number of the first two value bytes, in
\* -32768..32767; with fewer than 2 value bytes present, none is stored.
C11_RawEEG ==
    \A o \in {0, 2} :
    (variant \in {"main", "band_sep"} /\ forwarded # <<>>
         /\ Len(forwarded[1].payload) >= o + 2
         /\ forwarded[1].payload[o + 1] = 128
         /\ (o = 2 => forwarded[1].payload[1] = 2)) =>
        LET p == forwarded[1].payload
            rest == Len(p) - o - 2
            present == IF rest < p[o + 2] THEN rest ELSE p[o + 2]
            row == ItemsAt(o + 2)
        IN  IF present >= 2
            THEN LET u == p[o + 3] * 256 + p[o + 4]
                     n == IF u >= 32768 THEN u - 65536 ELSE u
                 IN  /\ Len(row) = 1
                     /\ row[1].item.kind = "RawEEG"
                     /\ row[1].item.value = n
                     /\ n \in (-32768)..32767
                     /\ \E j \in 1..Len(raw_data) : raw_data[j] = n
            ELSE row = <<>>

\* FF FF was stored as -1
C11_Witness ==
    /\ variant = "band_sep"
    /\ forwarded # <<>>
    /\ forwarded[1].payload = <<128, 2, 255, 255>>
    /\ raw_data = <<-1>>
    /\ Len(emitted) = 1

\* the items stored for the first payload decoded
FirstItems ==
    LET es == SelectSeq(emitted, LAMBDA e : e.pkt = 1)
    IN  [j \in 1..Len(es) |-> es[j].item]

\* the value bytes of the pairs of p whose code is c, in order
PairValues(p, c) ==
    LET idx == SelectSeq([k \in 1..(Len(p) \div 2) |-> k],
                         LAMBDA k : p[2 * k - 1] = c)
    IN  [j \in 1..Len(idx) |-> p[2 * idx[j]]]

\* C12: main.py, a payload made of (code, value) pairs with codes 0x02, 0x04
\* and 0x05 only: one item is stored per pair, in the order of the pairs, of
\* kind SignalQuality, Attention or Meditation by the code, carrying the
\* pair's value byte; the attention and meditation buffers hold the values
\* of the 0x04 and 0x05 pairs in order.
C12_SingleByteRows ==
    (variant = "main" /\ forwarded # <<>>
        /\ Len(forwarded[1].payload) % 2 = 0
        /\ \A k \in 1..(Len(forwarded[1].payload) \div 2) :
               forwarded[1].payload[2 * k - 1] \in {2, 4, 5}) =>
        LET p == forwarded[1].payload IN
        /\ Len(FirstItems) = Len(p) \div 2
        /\ \A k \in 1..(Len(p) \div 2) :
               /\ FirstItems[k].kind =
                      CASE p[2 * k - 1] = 2 -> "SignalQuality"
                        [] p[2 * k - 1] = 4 -> "Attention"
                        [] p[2 * k - 1] = 5 -> "Meditation"
               /\ FirstItems[k].value = p[2 * k]
               /\ FirstItems[k].at = 2 * k - 1
        /\ attention_data = PairValues(p, 4)
        /\ meditation_data = PairValues(p, 5)
        /\ (Len(forwarded) = 1 /\ PairValues(p, 2) # <<>>) =>
               signal_quality = PairValues(p, 2)[Len(PairValues(p, 2))]

\* an attention value of 0x55 and a meditation value with the high bit set
C12_Witness ==
    /\ variant = "main"
    /\ forwarded # <<>>
    /\ forwarded[1].payload = <<4, 85, 5, 200>>
    /\ attention_data = <<85>>
    /\ meditation_data = <<200>>
    /\ Len(emitted) = 2

\* the ways to read a payload as a row between two rows
InsertedIn ==
    [p \in InsertInputs |-> {c \in InsertCases : c.r1 \o c.u \o c.r2 = p}]

\* items as read from a payload that has n more bytes at offset o
Shifted(items, o, n) ==
    [j \in 1..Len(items) |->
        [items[j] EXCEPT !.at = IF @ >= o THEN @ + n ELSE @]]

\* C13: a payload r1 u r2 of three complete rows, u of a code the variant
\* has no branch for: the pass over u stores nothing and leaves the offset
\* right after u (code, length and `length` value bytes, or code and value),
\* and the items stored are those of the payload r1 r2, each read from the
\* same bytes.
C13_UnknownCodes ==
    (forwarded # <<>> /\ forwarded[1].payload \in InsertInputs) =>
        \A c \in InsertedIn[forwarded[1].payload] :
            c.u \in UnknownRows(variant) =>
                /\ RowPass(variant, forwarded[1].payload, Len(c.r1)) =
                       [items |-> <<>>, i |-> Len(c.r1) + Len(c.u), brk |-> FALSE]
                /\ Len(c.u) = IF HighBit(c.u[1]) THEN 2 + c.u[2] ELSE 2
                /\ FirstItems =
                       Shifted(parse_payload(variant, c.r1 \o c.r2),
                               Len(c.r1), Len(c.u))

\* the value bytes 04 3D of the row of code 0x81 were not read as a row
C13_Witness ==
    /\ variant = "main"
    /\ forwarded # <<>>
    /\ forwarded[1].payload = <<4, 60, 129, 2, 4, 61, 4, 60>>
    /\ attention_data = <<60, 60>>
    /\ Len(emitted) = 2

\* C14: a payload whose row at offset 0, or at offset 2 after one single-byte
\* row, has the high bit set and declares more value bytes than the payload
\* has left: the value data is what is left; items are stored for the row
\* only if that meets the minimum of the code (0x80: 2 bytes, one RawEEG of
\* the first two, main.py and band_sep.py; 0x83: 24 bytes, 8 band items,
\* band_sep.py and stress.py), the pass ends the loop, nothing is raised.
C14_TruncatedRow ==
    \A o \in {0, 2} :
    (forwarded # <<>>
         /\ Len(forwarded[1].payload) >= o + 2
         /\ HighBit(forwarded[1].payload[o + 1])
         /\ (o = 2 => forwarded[1].payload[1] \in {2, 4})
         /\ forwarded[1].payload[o + 2] > Len(forwarded[1].payload) - o - 2) =>
        LET p == forwarded[1].payload
            code == p[o + 1]
            rest == Len(p) - o - 2
            v == [j \in 1..rest |-> p[o + 2 + j]]
            row == SelectSeq(FirstItems, LAMBDA it : it.at >= o + 2)
            pass == RowPass(variant, p, o)
        IN  /\ ~raised
            /\ ~pass.brk
            /\ pass.i = o + 2 + p[o + 2]
            /\ pass.i > Len(p)
            /\ pass.items = row
            /\ IF code = 128 /\ variant \in {"main", "band_sep"} /\ rest >= 2
               THEN /\ Len(row) = 1
                    /\ row[1].kind = "RawEEG"
                    /\ row[1].value =
                          LET u == v[1] * 256 + v[2]
                          IN  IF u >= 32768 THEN u - 65536 ELSE u
               ELSE IF code = 131 /\ variant \in {"band_sep", "stress"} /\ rest >= 24
               THEN /\ Len(row) = 8
                    /\ \A k \in 0..7 :
                           /\ row[k + 1].kind = "BandPower"
                           /\ row[k + 1].value =
                                 v[3 * k + 1] * 65536 + v[3 * k + 2] * 256 + v[3 * k + 3]
               ELSE row = <<>>

\* a 0x80 row declaring 5 value bytes with 3 left stored the first two
C14_Witness ==
    /\ variant = "band_sep"
    /\ forwarded # <<>>
    /\ forwarded[1].payload = <<128, 5, 128, 0, 7>>
    /\ raw_data = <<-32768>>
    /\ Len(emitted) = 1

\* C15: in every variant, a payload that ends with the code of a single-byte
\* row and no value byte is decoded as the payload with a value byte 0 added:
\* a final code 0x02 stores SignalQuality 0.
C15_MissingValue ==
    (forwarded # <<>> /\ forwarded[1].payload \in MissingValueInputs) =>
        LET p == forwarded[1].payload IN
        /\ FirstItems = parse_payload(variant, Append(p, 0))
        /\ p[Len(p)] = 2 =>
               /\ FirstItems # <<>>
               /\ FirstItems[Len(FirstItems)] = Item("SignalQuality", "", 0, Len(p))

\* the items stored for the j-th payload handed on, in the history em
ItemsOf(em, j) ==
    LET es == SelectSeq(em, LAMBDA e : e.pkt = j)
    IN  [k \in 1..Len(es) |-> es[k].item]

C17_DecodeFinishes ==
    forwarded # <<>> =>
        LET given == forwarded[1].payload
            offs == scan_offsets(variant, forwarded[1].payload)
        IN  /\ ~raised
            /\ Len(given) <= 170
            /\ LoopLeft(given, parse_loop(variant, forwarded[1].payload))
            /\ offs[1] = 0
            /\ \A k \in 1..(Len(offs) - 1) :
                   offs[k] < offs[k + 1] /\ offs[k] < Len(given)
            /\ offs[Len(offs)] >= Len(given)
            /\ Len(offs) <= Len(given) + 1
            /\ Len(FirstItems) <= Len(given)
            /\ \A k \in 1..Len(FirstItems) :
                   FirstItems[k].kind \in
                       {"RawEEG", "BandPower", "Attention", "Meditation",
                        "SignalQuality"}

\* a single-byte row with value 0x55, then a multi-byte code with no length
C17_Witness ==
    /\ variant = "band_sep"
    /\ forwarded # <<>>
    /\ forwarded[1].payload = <<2, 85, 129>>
    /\ scan_offsets(variant, forwarded[1].payload) = <<0, 2, 3>>
    /\ signal_quality = 85
    /\ Len(emitted) = 1

\* C18 as stated: whenever parse_packet has returned, fewer bytes are left in
\* packet_buffer than the declared length if the state is PAYLOAD, and none
\* in every other state.
C18_StrictResidue ==
    pc = "idle" =>
        IF packet_state = "PAYLOAD"
        THEN Len(packet_buffer) < payload_length
        ELSE packet_buffer = <<>>

\* C18, amended: whenever parse_packet has returned, in state PAYLOAD with a
\* declared length above 0 fewer bytes than that length are left in
\* packet_buffer (169 at most), and none with a declared length of 0 and in
\* every other state; the payload accumulated has 170 bytes at most.
C18_BoundedResidue ==
    pc = "idle" =>
        /\ IF packet_state = "PAYLOAD" /\ payload_length > 0
           THEN Len(packet_buffer) < payload_length
           ELSE packet_buffer = <<>>
        /\ Len(packet_buffer) <= 169
        /\ Len(payload) <= 170
        /\ packet_state = "PAYLOAD" => payload_length \in 0..170

\* all but the last byte of the longest payload wait in the buffer
C18_Witness ==
    /\ pc = "idle"
    /\ packet_state = "PAYLOAD"
    /\ payload_length = 170
    /\ Len(packet_buffer) = 169
    /\ payload = <<>>

\* what is left for the loop of parse_packet to do: it shrinks with every
\* pass that does not leave the loop
LoopMeasure(buffer, state) ==
    2 * Len(buffer) + (IF state = "PAYLOAD" THEN 1 ELSE 0)

\* C19: every pass of the loop of parse_packet takes at least one byte off
\* the buffer, or goes from PAYLOAD with declared length 0 to CHECKSUM and
\* leaves the buffer, which is not empty, as it is, or leaves the loop: with
\* an empty buffer, or in PAYLOAD with fewer bytes than declared.  A pass in
\* CHECKSUM takes one byte.  A pass that stays in the loop lowers
\* 2 * len(packet_buffer) + (1 in PAYLOAD), so the loop is left within
\* 2 * len(packet_buffer) + 1 passes.
C19_NeverBlocks ==
    [][ (pc = "parse" /\ ProgramStep) =>
          /\ \/ /\ pc' = "parse"
                /\ Len(packet_buffer') < Len(packet_buffer)
             \/ /\ pc' = "parse"
                /\ packet_state = "PAYLOAD" /\ payload_length = 0
                /\ packet_state' = "CHECKSUM"
                /\ packet_buffer' = packet_buffer /\ packet_buffer # <<>>
             \/ /\ pc' = "idle"
                /\ UNCHANGED framerVars
                /\ \/ packet_buffer = <<>>
                   \/ /\ packet_state = "PAYLOAD"
                      /\ Len(packet_buffer) < payload_length
          /\ pc' = "parse" =>
                 LoopMeasure(packet_buffer', packet_state')
                     < LoopMeasure(packet_buffer, packet_state)
          /\ (packet_state = "CHECKSUM" /\ packet_buffer # <<>>) =>
                 packet_buffer' = Tail(packet_buffer)
          /\ ~raised'
      ]_vars

\* the packet of declared length 0 went through PAYLOAD and CHECKSUM
C19_Witness ==
    /\ pc = "idle"
    /\ received = <<170, 170, 0, 255>>
    /\ packet_state = "SYNC1"
    /\ payload_length = 0
    /\ Len(forwarded) = 1
    /\ forwarded[1].payload = <<>>
    /\ packet_buffer = <<>>

\* C20: a pass in SYNC1 takes exactly the first byte of the buffer and goes
\* to SYNC2 if that byte is 0xAA and stays in SYNC1 if not; a pass in SYNC2
\* takes exactly the first byte and goes to PLENGTH if it is 0xAA and to
\* SYNC1 if not; neither touches the payload, the declared length or what
\* was handed on.  The buffer is always the bytes received that were not
\* taken yet, and the number of bytes taken never falls: a byte taken in
\* SYNC2 is not in the buffer again.
C20_SyncSearch ==
    [][ /\ (pc = "parse" /\ packet_state = "SYNC1" /\ packet_buffer # <<>>
                /\ ProgramStep) =>
              /\ packet_buffer' = Tail(packet_buffer)
              /\ packet_state' = IF Head(packet_buffer) = 170 THEN "SYNC2" ELSE "SYNC1"
              /\ UNCHANGED <<payload, payload_length, forwarded, emitted>>
        /\ (pc = "parse" /\ packet_state = "SYNC2" /\ packet_buffer # <<>>
                /\ ProgramStep) =>
              /\ packet_buffer' = Tail(packet_buffer)
              /\ packet_state' = IF Head(packet_buffer) = 170 THEN "PLENGTH" ELSE "SYNC1"
              /\ UNCHANGED <<payload, payload_length, forwarded, emitted>>
        /\ Len(received') - Len(packet_buffer') >= Len(received) - Len(packet_buffer)
        /\ packet_buffer' =
               SubSeq(received', Len(received') - Len(packet_buffer') + 1,
                      Len(received'))
        /\ SubSeq(received', 1, Len(received)) = received
      ]_vars

\* FF was taken in SYNC2 and led to SYNC1; the two bytes AA after it were
\* taken as the sync bytes
C20_Witness ==
    /\ pc = "idle"
    /\ received = <<170, 255, 170, 170>>
    /\ packet_state = "PLENGTH"
    /\ packet_buffer = <<>>
    /\ forwarded = <<>>

\* the ways to read a payload as a run of 0x55 between rows
ExcodedIn ==
    [p \in ExcodeInputs |->
        {c \in ExcodeCases : c.pre \o ExcodeRun(c.k) \o c.post = p}]

\* offsets as met in a payload that has n more bytes at offset o
ShiftedOffsets(offs, o, n) ==
    [j \in 1..Len(offs) |-> IF offs[j] > o THEN offs[j] + n ELSE offs[j]]

\* C21: a payload `pre` 0x55^k `post`, `pre` made of complete rows: the items
\* stored are those of the payload `pre` `post`, each read from the same
\* bytes, and with a row in `post` the row loop meets the same rows; with
\* `post` empty they are the items of `pre`, and a payload of 0x55 bytes
\* alone stores nothing; a byte 0x55 that is the value of a single-byte row
\* or a value byte of a multi-byte row is stored as data.
C21_ExtendedCodes ==
    (forwarded # <<>> /\ forwarded[1].payload \in ExcodeInputs) =>
        /\ \A c \in ExcodedIn[forwarded[1].payload] :
               /\ FirstItems =
                      Shifted(parse_payload(variant, c.pre \o c.post),
                              Len(c.pre), c.k)
               /\ SkipExcode(forwarded[1].payload, Len(c.pre)) = Len(c.pre) + c.k
               /\ c.post # <<>> =>
                      scan_offsets(variant, forwarded[1].payload) =
                          ShiftedOffsets(scan_offsets(variant, c.pre \o c.post),
                                         Len(c.pre), c.k)
               /\ c.post = <<>> =>
                      Len(FirstItems) = Len(parse_payload(variant, c.pre))
               /\ (c.pre = <<>> /\ c.post = <<>>) => FirstItems = <<>>
               /\ c.post = <<2, 85>> =>
                      FirstItems[Len(FirstItems)] =
                          Item("SignalQuality", "", 85, Len(c.pre) + c.k + 1)
               /\ (c.post = <<128, 2, 85, 85>> /\ variant \in {"main", "band_sep"}) =>
                      FirstItems[Len(FirstItems)] =
                          Item("RawEEG", "", 21845, Len(c.pre) + c.k + 2)
               /\ (c.pre = <<4, 85>> /\ variant = "main") =>
                      FirstItems[1] = Item("Attention", "", 85, 1)

\* two bytes 0x55 lay between an attention row of value 0x55 and a
\* meditation row of value 0x55
C21_Witness ==
    /\ variant = "main"
    /\ forwarded # <<>>
    /\ forwarded[1].payload = <<4, 85, 85, 85, 4, 60, 5, 85>>
    /\ attention_data = <<85, 60>>
    /\ meditation_data = <<85>>
    /\ Len(emitted) = 3

\* C22: a pass of parse_packet's loop in state PAYLOAD with fewer bytes in the
\* buffer than the declared length returns from parse_packet and leaves the
\* state, the declared length, the accumulator, the buffer and everything
\* decoded as they are; the pass that leaves PAYLOAD takes the payload as the
\* first `length` bytes received after the length byte, in the order
\* received, and leaves the bytes after them in the buffer; every payload
\* handed on is those bytes of its packet.
C22_PayloadSuspends ==
    [][ /\ (pc = "parse" /\ packet_state = "PAYLOAD" /\ ProgramStep
                /\ Len(packet_buffer) < payload_length) =>
              /\ pc' = "idle"
              /\ UNCHANGED <<packet_state, payload_length, payload, packet_buffer,
                             forwarded, emitted, sinkVars, raised>>
        /\ (packet_state = "PAYLOAD" /\ packet_state' # "PAYLOAD") =>
              /\ packet_state' = "CHECKSUM"
              /\ Len(packet_buffer) >= payload_length
              /\ received[Consumed] = payload_length
              /\ payload = <<>>
              /\ payload' = SubSeq(received, Consumed + 1, Consumed + payload_length)
              /\ packet_buffer' =
                     SubSeq(received, Consumed + payload_length + 1, Len(received))
              /\ UNCHANGED <<payload_length, forwarded, emitted, received>>
        /\ \A j \in 1..Len(forwarded') :
               LET e == forwarded'[j].end
                   n == Len(forwarded'[j].payload)
               IN  /\ received'[e - n - 1] = n
                   /\ forwarded'[j].payload = SubSeq(received', e - n, e - 1)
      ]_vars

\* parse_packet returned inside the payload of the longest packet, with all
\* but the last of its 170 bytes buffered and none accumulated
C22_Witness ==
    /\ pc = "idle"
    /\ packet_state = "PAYLOAD"
    /\ payload_length = 170
    /\ Len(packet_buffer) = 169
    /\ packet_buffer = SubSeq(LongPayload, 1, 169)
    /\ payload = <<>>
    /\ forwarded = <<>>
    /\ in_waiting = <<>>

\* the bytes of the entries a..b of the history t
BytesOf(t, a, b) == [j \in 1..(b - a + 1) |-> t[a + j - 1].byte]

\* the classes of the entries of t follow the packet format: a length byte
\* comes after two sync bytes; a length byte n <= 170 is followed by its n
\* payload bytes, taken together, and then by the checksum byte; payload and
\* checksum bytes occur nowhere else
Classified(t) ==
    \A i \in 1..Len(t) :
        LET c == t[i].class
            before == IF i = 1 THEN "none" ELSE t[i - 1].class
        IN  /\ c \in {"noise", "sync", "length", "payload", "checksum"}
            /\ c = "sync" => t[i].byte = 170
            /\ c = "noise" => t[i].byte # 170
            /\ c = "length" =>
                   /\ i >= 3 /\ before = "sync" /\ t[i - 2].class = "sync"
                   /\ (t[i].byte <= 170 /\ i < Len(t)) =>
                          /\ Len(t) >= i + t[i].byte
                          /\ \A k \in (i + 1)..(i + t[i].byte) : t[k].class = "payload"
                          /\ i + t[i].byte < Len(t) =>
                                 t[i + t[i].byte + 1].class = "checksum"
                   /\ (t[i].byte > 170 /\ i < Len(t)) =>
                          t[i + 1].class \in {"noise", "sync"}
            /\ c = "payload" => before \in {"length", "payload"}
            /\ c = "checksum" => before \in {"length", "payload"}
            /\ c \in {"noise", "sync"} => before # "payload"

\* the number of entries of class "payload" among the entries a..b of t
RECURSIVE PayloadCount(_, _, _)
PayloadCount(t, a, b) ==
    IF a > b THEN 0
    ELSE IF a = b THEN (IF t[a].class = "payload" THEN 1 ELSE 0)
    ELSE LET h == (a + b) \div 2
         IN  PayloadCount(t, a, h) + PayloadCount(t, h + 1, b)

\* the declared lengths of the packets whose payload was taken
RECURSIVE DeclaredTaken(_, _, _)
DeclaredTaken(t, a, b) ==
    IF a > b THEN 0
    ELSE IF a = b
         THEN (IF t[a].class = "length" /\ t[a].byte <= 170 /\ a < Len(t)
               THEN t[a].byte ELSE 0)
    ELSE LET h == (a + b) \div 2
         IN  DeclaredTaken(t, a, h) + DeclaredTaken(t, h + 1, b)

\* C23: in every state the bytes removed from packet_buffer so far, in the
\* order removed, followed by the bytes in the buffer are the bytes read from
\* the port; each was removed once, by one branch: as discarded noise, sync
\* byte, length byte, payload byte or checksum byte, in the order of the
\* packet format; the payload accumulated and every payload handed on are
\* payload bytes removed for that packet, so the payload bytes removed are
\* as many as the packets declared and no byte is in two payloads.  A pass
\* of the loop removes bytes from the front of the buffer and a read adds
\* bytes at its end.
ByteConservation ==
    /\ BytesOf(taken, 1, Len(taken)) \o packet_buffer = received
    /\ Classified(taken)
    /\ PayloadCount(taken, 1, Len(taken)) = DeclaredTaken(taken, 1, Len(taken))
    /\ packet_state = "CHECKSUM" =>
           /\ payload = BytesOf(taken, Len(taken) - payload_length + 1, Len(taken))
           /\ taken[Len(taken) - payload_length].class = "length"
    /\ \A j \in 1..Len(forwarded) :
           LET e == forwarded[j].end
               n == Len(forwarded[j].payload)
           IN  /\ taken[e].class = "checksum"
               /\ forwarded[j].payload = BytesOf(taken, e - n, e - 1)
               /\ \A k \in (e - n)..(e - 1) : taken[k].class = "payload"
               /\ taken[e - n - 1].class = "length"
               /\ j < Len(forwarded) =>
                      e < forwarded[j + 1].end - Len(forwarded[j + 1].payload) - 3

C23_ByteConservation ==
    [][ /\ ByteConservation'
        /\ SubSeq(taken', 1, Len(taken)) = taken
        /\ Len(taken') > Len(taken) =>
               /\ BytesOf(taken', Len(taken) + 1, Len(taken')) =
                      SubSeq(packet_buffer, 1, Len(taken') - Len(taken))
               /\ packet_buffer' =
                      SubSeq(packet_buffer, Len(taken') - Len(taken) + 1,
                             Len(packet_buffer))
               /\ received' = received
        /\ received' # received =>
               /\ taken' = taken
               /\ \E chunk \in {in_waiting} :
                      /\ chunk # <<>>
                      /\ received' = received \o chunk
                      /\ packet_buffer' = packet_buffer \o chunk
      ]_vars

\* a byte 0xAA taken as sync, a noise byte after it, and a packet: all five
\* classes
C23_Witness ==
    /\ pc = "idle"
    /\ packet_buffer = <<>>
    /\ received = <<170, 0>> \o Packet(<<4, 60, 5, 45>>)
    /\ Len(forwarded) = 1
    /\ [j \in 1..Len(taken) |-> taken[j].class] =
           <<"sync", "noise", "sync", "sync", "length",
             "payload", "payload", "payload", "payload", "checksum">>

\* the changes of packet_state the branches of parse_packet make
StateEdges ==
    {<<"SYNC1", "SYNC2">>, <<"SYNC2", "PLENGTH">>, <<"SYNC2", "SYNC1">>,
     <<"PLENGTH", "PAYLOAD">>, <<"PLENGTH", "SYNC1">>,
     <<"PAYLOAD", "CHECKSUM">>, <<"CHECKSUM", "SYNC1">>}

\* the classes of the last n bytes removed from the buffer
LastClasses(n) ==
    IF Len(taken) < n THEN <<>>
    ELSE [j \in 1..n |-> taken[Len(taken) - n + j].class]

FramerStructure ==
    /\ packet_state = "PAYLOAD" =>
           /\ payload_length \in 0..170
           /\ payload = <<>>
           /\ LastClasses(3) = <<"sync", "sync", "length">>
           /\ taken[Len(taken)].byte = payload_length
    /\ packet_state = "CHECKSUM" =>
           /\ payload_length \in 0..170
           /\ Len(payload) = payload_length
           /\ Len(taken) >= payload_length + 3
           /\ taken[Len(taken) - payload_length].class = "length"
           /\ taken[Len(taken) - payload_length].byte = payload_length
           /\ taken[Len(taken) - payload_length - 1].class = "sync"
           /\ taken[Len(taken) - payload_length - 2].class = "sync"
    /\ packet_state = "PLENGTH" => LastClasses(2) = <<"sync", "sync">>
    /\ packet_state = "SYNC2" => LastClasses(1) = <<"sync">>
    /\ payload_length = Undefined =>
           /\ packet_state \in {"SYNC1", "SYNC2", "PLENGTH"}
           /\ payload = <<>>
           /\ forwarded = <<>>
    /\ ~raised

\* C24: in state PAYLOAD the declared length is set, is in 0..170 and the
\* accumulator is empty; in state CHECKSUM the accumulator has as many bytes
\* as declared, 170 at most; packet_state changes only along SYNC1 -> SYNC2
\* -> PLENGTH -> PAYLOAD -> CHECKSUM -> SYNC1 and back to SYNC1 from SYNC2
\* and PLENGTH, so in PAYLOAD and CHECKSUM the last bytes removed before the
\* payload were two sync bytes and the length byte that set payload_length;
\* while payload_length is not set the state is none of the two and no
\* AttributeError is raised.
C24_FramerStructure ==
    [][ /\ FramerStructure'
        /\ packet_state' # packet_state =>
               <<packet_state, packet_state'>> \in StateEdges
        /\ (payload_length' # payload_length \/ payload' # payload) =>
               \/ packet_state = "PLENGTH" /\ payload' = <<>>
               \/ /\ packet_state = "PAYLOAD" /\ packet_state' = "CHECKSUM"
                  /\ payload_length' = payload_length
      ]_vars

\* the whole payload of the longest packet is accumulated
C24_Witness ==
    /\ packet_state = "CHECKSUM"
    /\ payload_length = 170
    /\ Len(payload) = 170
    /\ LastClasses(171)[1] = "length"
    /\ forwarded = <<>>

(***************************************************************************)
(* The band buffers near their capacity: the framer stands in CHECKSUM     *)
(* with a payload of 0x83 rows accumulated, after `fill` packets of one    *)
(* 0x83 row each were decoded; the histories cover the packet in progress  *)
(***************************************************************************)
MaxRows == 3

\* the 0x83 row of the j-th packet decoded before
FillRow(j) == <<131, 24>> \o [i \in 1..24 |-> (i * j) % 256]

\* the items of the packets a..b decoded before, in order
RECURSIVE FillItems(_, _, _)
FillItems(v, a, b) ==
    IF a > b THEN <<>>
    ELSE IF a = b THEN parse_payload(v, FillRow(a))
    ELSE LET h == (a + b) \div 2
         IN  FillItems(v, a, h) \o FillItems(v, h + 1, b)

EmptySinks ==
    [raw_data |-> <<>>, attention_data |-> <<>>, meditation_data |-> <<>>,
     signal_quality |-> 0,
     bands |-> [b \in {BandNames[k] : k \in 1..Len(BandNames)} |-> <<>>],
     stress_index |-> <<>>, attention_values |-> <<>>,
     meditation_values |-> <<>>, stress_values_during_monitoring |-> <<>>,
     is_monitoring |-> FALSE]

Filled(v, fill) == StoreAll(v, EmptySinks, FillItems(v, 1, fill))

Fills == {0, 1, buffer_size - 2, buffer_size - 1, buffer_size}

\* a row whose two alpha bands are 0, and a complete row one byte short of
\* the 24 bytes
ZeroAlphaRow == <<131, 24>> \o [j \in 1..24 |-> IF j \in 7..12 THEN 0 ELSE j]
ShortRow == <<131, 23>> \o [j \in 1..23 |-> j]

BandRows == {PowerRow, ZeroAlphaRow, ShortRow}

\* up to MaxRows rows, a last row cut short, and rows beside a 0x02 row
BandPayloads ==
    RowSeqs(BandRows, MaxRows)
    \cup {q \o <<131, 24>> \o [j \in 1..23 |-> j] : q \in RowSeqs(BandRows, 1)}
    \cup {<<2, 7>>, <<2, 7>> \o PowerRow, ZeroAlphaRow \o <<2, 7>>}

InitBands ==
    /\ variant \in Variants
    /\ \E fill \in Fills :
           LET s == Filled(variant, fill) IN
           /\ raw_data = s.raw_data
           /\ attention_data = s.attention_data
           /\ meditation_data = s.meditation_data
           /\ signal_quality = s.signal_quality
           /\ bands = s.bands
           /\ stress_index = s.stress_index
           /\ attention_values = <<>>
           /\ meditation_values = <<>>
           /\ stress_values_during_monitoring = <<>>
    /\ payload \in BandPayloads
    /\ payload_length = Len(payload)
    /\ packet_state = "CHECKSUM"
    /\ packet_buffer = <<Checksum(payload)>>
    /\ received = Packet(payload)
    /\ wire = Packet(<<2, 0>>)
    /\ in_waiting = <<>>
    /\ pc = "parse"
    /\ raised = FALSE
    /\ forwarded = <<>>
    /\ emitted = <<>>
    /\ is_monitoring \in (IF HasButtons(variant) THEN BOOLEAN ELSE {FALSE})
    /\ btn_start = ~is_monitoring
    /\ btn_stop = is_monitoring
    /\ clicks_left \in ClicksFor(variant, Len(payload) <= 2)
    /\ taken = TakenOf("SYNC1", <<SYNC, SYNC>>)
                  \o TakenOf("PLENGTH", <<Len(payload)>>)
                  \o TakenOf("PAYLOAD", payload)

SpecBands == InitBands /\ [][Next]_vars

\* the number of values band k holds
BandLen(k) == Len(bands[BandNames[k]])

BandsTogether ==
    /\ \A k \in 1..8 : BandLen(k) = BandLen(1) /\ BandLen(k) <= 100
    /\ variant = "stress" => Len(stress_index) = BandLen(1)
    /\ variant = "band_sep" => stress_index = <<>>
    /\ variant = "main" => BandLen(1) = 0 /\ stress_index = <<>>

\* the band items stored for the payload handed on in this step
NewBandItems ==
    SelectSeq(SubSeq(emitted', Len(emitted) + 1, Len(emitted')),
              LAMBDA e : e.item.kind = "BandPower")

\* C25: in band_sep.py and stress.py the eight band buffers hold the same
\* number of values in every state, 100 at most, and in stress.py
\* stress_index holds that number too; a payload handed on stores band items
\* in groups of eight, one per band, and for r such groups every band buffer
\* and, in stress.py, stress_index grow by r values, up to 100, the newest
\* band values being those of the last group; a step that hands nothing on
\* leaves the buffers as they are.
C25_BandsTogether ==
    [][ /\ BandsTogether'
        /\ LET r == Len(NewBandItems) \div 8
               len(n) == Min(100, n + r)
           IN  /\ Len(NewBandItems) = 8 * r
               /\ \A k \in 1..8 :
                      /\ Len(bands'[BandNames[k]]) = len(BandLen(k))
                      /\ r > 0 =>
                             /\ Last(bands'[BandNames[k]]) =
                                    NewBandItems[8 * (r - 1) + k].item.value
                             /\ NewBandItems[8 * (r - 1) + k].item.band = BandNames[k]
               /\ variant = "stress" =>
                      /\ Len(stress_index') = len(Len(stress_index))
                      /\ is_monitoring =>
                             Len(stress_values_during_monitoring') =
                                 Len(stress_values_during_monitoring) + r
               /\ forwarded' = forwarded => UNCHANGED <<bands, stress_index>>
      ]_vars

\* stress.py with 99 values in every buffer: of the three rows of the payload
\* the first had 0 in both alpha bands, the second was a byte short, and the
\* third was stored with the buffers full
C25_Witness ==
    /\ variant = "stress"
    /\ forwarded # <<>>
    /\ forwarded[1].payload = ZeroAlphaRow \o ShortRow \o PowerRow
    /\ Len(emitted) = 16
    /\ BandLen(8) = 100
    /\ Len(stress_index) = 100
    /\ stress_index[99] = Fraction(0, 1)
    /\ bands["Delta"][1] = 2 * 65536 + 4 * 256 + 6

\* the values of the items of one kind stored by this step
NewValues(kind) ==
    LET new == SelectSeq(SubSeq(emitted', Len(emitted) + 1, Len(emitted')),
                         LAMBDA e : e.item.kind = kind)
    IN  [j \in 1..Len(new) |-> new[j].item.value]

\* what the buttons' callbacks and parse_payload do not share
PlotBuffers == <<raw_data, attention_data, meditation_data, signal_quality>>

\* C26: main.py.  After every step the Start button is active exactly when
\* is_monitoring is false and the Stop button exactly when it is true.  A
\* click on Start while recording and a click on Stop while not recording
\* change nothing; a click on Start while not recording sets is_monitoring
\* and empties attention_values and meditation_values; a click on Stop while
\* recording clears is_monitoring and leaves the two lists; no click touches
\* the plot buffers or the framer.  A step that hands a payload on appends
\* its Attention and Meditation values to attention_data and
\* meditation_data, and to attention_values and meditation_values exactly
\* when is_monitoring is true; no other step changes the two lists.
C26_RecordingSession ==
    [][ variant = "main" =>
          /\ btn_start' = ~is_monitoring'
          /\ btn_stop' = is_monitoring'
          /\ (StartClick /\ is_monitoring) =>
                 UNCHANGED <<Session, PlotBuffers, framerVars, forwarded, emitted>>
          /\ (StopClick /\ ~is_monitoring) =>
                 UNCHANGED <<Session, PlotBuffers, framerVars, forwarded, emitted>>
          /\ (StartClick /\ ~is_monitoring) =>
                 /\ is_monitoring'
                 /\ attention_values' = <<>>
                 /\ meditation_values' = <<>>
                 /\ UNCHANGED <<PlotBuffers, framerVars, forwarded, emitted>>
          /\ (StopClick /\ is_monitoring) =>
                 /\ ~is_monitoring'
                 /\ UNCHANGED <<attention_values, meditation_values>>
                 /\ UNCHANGED <<PlotBuffers, framerVars, forwarded, emitted>>
          /\ forwarded' # forwarded =>
                 /\ attention_data' = attention_data \o NewValues("Attention")
                 /\ meditation_data' = meditation_data \o NewValues("Meditation")
                 /\ attention_values' =
                        IF is_monitoring
                        THEN attention_values \o NewValues("Attention")
                        ELSE attention_values
                 /\ meditation_values' =
                        IF is_monitoring
                        THEN meditation_values \o NewValues("Meditation")
                        ELSE meditation_values
                 /\ is_monitoring' = is_monitoring
          /\ (forwarded' = forwarded /\ clicks_left' = clicks_left) =>
                 UNCHANGED <<Session, attention_data, meditation_data>>
      ]_vars

\* Start was clicked after the first packet was decoded and before the
\* second was: the plot buffers hold the values of both, the session lists
\* those of the second
C26_Witness ==
    /\ variant = "main"
    /\ is_monitoring
    /\ btn_stop /\ ~btn_start
    /\ attention_data = <<60, 61>>
    /\ meditation_data = <<45>>
    /\ attention_values = <<61>>
    /\ meditation_values = <<>>

====
